---- MODULE Spec2Model ----
(***************************************************************************)
(* Weighted paging with a time-varying cache capacity.                     *)
(*                                                                         *)
(* The module models the online eviction engine                            *)
(* (OnlineVariableCacheSystem), its two strategies (eviction oracle and    *)
(* domination strategy) and the offline solver (OfflineOptimalSolver):     *)
(* the layered flow network, the minimum-cost flow the external solver     *)
(* returns for it, the reconstruction of the schedule and the two cost     *)
(* recoveries.                                                             *)
(***************************************************************************)
EXTENDS Integers, Sequences, FiniteSets, TLC

VARIABLES
    N,              \* run_experiment: number of pages of the generated sequence
    T_val,          \* run_experiment: base weight t
    A_val,          \* run_experiment: branching factor a
    domination_strategy, \* OnlineVariableCacheSystem.domination_strategy
    pages,          \* the list of Page given to both solvers
    requests,       \* the list of Request
    capacities,     \* the capacity schedule: time_step -> capacity (a dict)
    pc,             \* position of the online engine's run
    i,              \* index of the request being processed by run
    cache,          \* OnlineVariableCacheSystem.cache
    total_cost,     \* OnlineVariableCacheSystem.total_cost
    history,        \* OnlineVariableCacheSystem.history
    labels,         \* OnlineVariableCacheSystem.labels
    loaded,         \* len(self.cache) when the eviction loop of the request began
    opc,            \* position of the offline solver's solve
    G,              \* the layered graph: <<u, v>> -> [capacity, weight]
    togo,           \* min-cost-flow solver: least cost of completing a flow
    layer,          \* min-cost-flow solver: the layer the flow has reached
    cur,            \* min-cost-flow solver: the flow through that layer
    flow_dict,      \* the flow: the set of <<u, v, amount>> with amount > 0
    states,         \* the schedule solve returns
    real_cost       \* the cost solve returns

configuration == <<N, T_val, A_val, domination_strategy>>
inputs == <<configuration, pages, requests, capacities>>
online == <<pc, i, cache, total_cost, history, labels, loaded>>
offline == <<opc, G, togo, layer, cur, flow_dict, states, real_cost>>

-----------------------------------------------------------------------------
(* Bounds of the model and constants of the program.                        *)

\* Longest request sequence.
MaxT == 3
\* Largest capacity of a schedule entry.
MaxCap == 2
\* The identifiers of pages, in increasing order of the string comparison.
IdOrder == <<"A", "B", "C", "D", "P1", "P2", "P3", "P4">>
\* Identifiers of the pages of the inputs of the online engine.
PageIds == <<"A", "B", "C">>
\* Identifiers of the pages of the inputs of the experiment with both solvers.
ExperimentPageIds == <<"A", "B">>
\* Weights a page may have.
Weights == {1, 2}
\* Offsets between a request's time_step and index + 1.
Shifts == {0, 1}
\* Most invocations of run on one engine.
MaxRuns == 2
\* Most pages the generator is asked for.
MaxN == 3
\* Largest branching factor the generator is asked for.
MaxA == 3
\* Base weights the generator is asked for.
BaseWeights == {2, 3}
\* The capacity of every step of the experiment's schedule.
ExperimentCapacity == 2
\* float('inf'), larger than every time step.
Infinity == 2147483647
\* The capacity of a time step without a schedule entry.
DefaultCapacity == 1

-----------------------------------------------------------------------------
(* paging_model.py                                                          *)

Page(id, weight) == [id |-> id, weight |-> weight]

Request(index, page, time_step) ==
    [index |-> index, page |-> page, time_step |-> time_step]

Chain(reqs) == [requests |-> reqs]

\* A CacheState that keeps no copy of the pages.
CacheStateWithoutPages(time_step, capacity, pgs) ==
    [time_step |-> time_step, capacity |-> capacity, pages |-> {}]

CacheState(time_step, capacity, pgs) ==
    [time_step |-> time_step, capacity |-> capacity, pages |-> pgs]

\* Position of an identifier in the order of the identifiers.
IdRank(id) == CHOOSE n \in 1..Len(IdOrder) : IdOrder[n] = id

Range(s) == {s[n] : n \in 1..Len(s)}

\* dict.get(key, default)
Get(dict, key, default) == IF key \in DOMAIN dict THEN dict[key] ELSE default

\* all_requests[current_req_idx+1:]
Suffix(s, from) == SubSeq(s, from + 1, Len(s))

Min(a, b) == IF a <= b THEN a ELSE b
Max(a, b) == IF a >= b THEN a ELSE b

-----------------------------------------------------------------------------
(* recursive_request_sequence.py                                            *)

RECURSIVE Power(_, _)
\* b ** e
Power(b, e) == IF e = 0 THEN 1 ELSE b * Power(b, e - 1)

RECURSIVE Repeat(_, _)
\* seq * m; empty when m <= 0
Repeat(seq, m) == IF m <= 0 THEN <<>> ELSE seq \o Repeat(seq, m - 1)

\* f"P{i}"
PageName(k) == <<"P1", "P2", "P3", "P4">>[k]

\* pages = [Page(f"P{i}", float(t**i)) for i in range(1, n_pages + 1)]
GeneratedPages(n_pages, t) ==
    [k \in 1..n_pages |-> Page(PageName(k), Power(t, k))]

RECURSIVE build_sequence(_, _, _)
build_sequence(level, pgs, m) ==
    IF level = 1
    THEN Repeat(<<pgs[1]>>, m)
    ELSE LET prev_seq == build_sequence(level - 1, pgs, m)
             current_page == pgs[level]
         IN  <<current_page>> \o Repeat(prev_seq \o <<current_page>>, m - 1)

generate_recursive_sequence(n_pages, t, a) ==
    LET pgs == GeneratedPages(n_pages, t)
        raw_pages == build_sequence(n_pages, pgs, a)
    IN  [pages |-> pgs,
         requests |-> [k \in 1..Len(raw_pages) |-> Request(k - 1, raw_pages[k], k)]]

-----------------------------------------------------------------------------
(* The inputs: pages, requests and a capacity schedule.                     *)

PageLists(ids) ==
    {[n \in 1..Len(ids) |-> Page(ids[n], w[n])] : w \in [1..Len(ids) -> Weights]}

RequestLists(pgs) ==
    UNION {{[n \in 1..T |-> Request(n - 1, pgs[f[n]], n + s)] :
                f \in [1..T -> 1..Len(pgs)], s \in Shifts} : T \in 1..MaxT}

\* A schedule has entries for the time steps 1..m; later steps have none.
CapacitySchedules ==
    UNION {[1..m -> 0..MaxCap] : m \in 0..MaxT}

-----------------------------------------------------------------------------
(* online_strategies.py                                                     *)

\* next_use[p]: the time_step of the first future request of p, else inf.
NextUse(p, future_requests) ==
    IF \E n \in 1..Len(future_requests) : future_requests[n].page = p
    THEN LET first == CHOOSE n \in 1..Len(future_requests) :
                        /\ future_requests[n].page = p
                        /\ \A m \in 1..(n - 1) : future_requests[m].page # p
         IN  future_requests[first].time_step
    ELSE Infinity

\* The order of the keys with the weight left out: (next_use[p], p.id).
OracleKeyLessNoWeight(p, q, future_requests) ==
    LET np == NextUse(p, future_requests)
        nq == NextUse(q, future_requests)
    IN  \/ np < nq
        \/ np = nq /\ IdRank(p.id) < IdRank(q.id)

\* Order of the keys (next_use[p], p.weight, p.id), compared as tuples.
OracleKeyLess(p, q, future_requests) ==
    LET np == NextUse(p, future_requests)
        nq == NextUse(q, future_requests)
    IN  \/ np < nq
        \/ np = nq /\ p.weight < q.weight
        \/ np = nq /\ p.weight = q.weight /\ IdRank(p.id) < IdRank(q.id)

\* FurthestInFutureOracle.select_eviction: max() returns the first element, in
\* the iteration order of the set, that no element exceeds; the set of the
\* pages it can return over the iteration orders.
select_eviction(current_cache, current_time, future_requests) ==
    {p \in current_cache :
        \A q \in current_cache : ~OracleKeyLess(p, q, future_requests)}

\* NoOpDominationStrategy.find_domination
None == <<>>
NoOpFindDomination(current_cache, future_requests, lbls) == {None}

\* The results a DominationStrategy may return: nothing, or a page with a
\* list of chains of future requests.
AnyFindDomination(current_cache, future_requests, lbls) ==
    {None} \cup
    {<<p, chains>> :
        p \in Range(pages),
        chains \in {<<>>} \cup
                   {<<Chain(SubSeq(future_requests, 1, n))>> :
                        n \in 1..Len(future_requests)}}

-----------------------------------------------------------------------------
(* online_algorithm.py                                                      *)

\* _get_furthest: max() by next_use alone; the pages it can return over the
\* orders of the candidate list.
_get_furthest(pgs, future_reqs) ==
    {p \in pgs :
        \A q \in pgs : NextUse(q, future_reqs) <= NextUse(p, future_reqs)}

\* Rule 1: the pages _evict may pass to cache.remove for the result (p, chains).
Rule1Victims(p, future_reqs) ==
    LET candidates == {q \in cache : q.weight <= p.weight}
    IN  IF candidates = {} THEN {p} ELSE _get_furthest(candidates, future_reqs)

\* Rule 1 setting the label of every request, in a chain or not.
Rule1LabelsAll(p, chains) == [x \in DOMAIN labels |-> p.weight]

\* Rule 1: the labels after the update for the chains.
Rule1Labels(p, chains) ==
    LET touched == {r.index : r \in UNION {Range(c.requests) : c \in Range(chains)}}
    IN  [x \in DOMAIN labels \cup touched |->
            IF x \in touched THEN p.weight ELSE labels[x]]

\* Step 1 charging the weight on a hit as well.
LoadCostAlways(req) == req.page.weight

\* What step 1 adds to total_cost.
LoadCost(req) == IF req.page \in cache THEN 0 ELSE req.page.weight

\* The loop condition letting one page too many stay.
OverCapacityOffByOne(c, k_t) == Cardinality(c) > k_t + 1

\* The condition of the eviction loop.
OverCapacity(c, k_t) == Cardinality(c) > k_t

\* k_t = self.capacities.get(t, 1)
CapacityAt(t) == Get(capacities, t, DefaultCapacity)

\* run, up to the loop over the requests: the labels are initialised.
RunStart ==
    /\ pc = "constructed"
    /\ labels' = [x \in {r.index : r \in Range(requests)} |-> 0]
    /\ i' = 0
    /\ pc' = IF Len(requests) = 0 THEN "returned" ELSE "load"
    /\ UNCHANGED <<inputs, offline, cache, total_cost, history, loaded>>

\* Step 1 of an iteration: load the page on a miss.
RunLoad ==
    /\ pc = "load"
    /\ LET req == requests[i + 1]
       IN  /\ cache' = cache \cup {req.page}
           /\ total_cost' = total_cost + LoadCost(req)
           /\ loaded' = Cardinality(cache \cup {req.page})
    /\ pc' = "maintain"
    /\ UNCHANGED <<inputs, offline, i, history, labels>>

\* _evict, given the result of find_domination.
Evict(dom_result) ==
    LET req == requests[i + 1]
        future_reqs == Suffix(requests, i + 1)
    IN  IF dom_result # None
        THEN LET p == dom_result[1]
                 chains == dom_result[2]
             IN  \E q \in Rule1Victims(p, future_reqs) :
                    IF q \in cache
                    THEN /\ cache' = cache \ {q}
                         /\ labels' = Rule1Labels(p, chains)
                         /\ pc' = "maintain"
                    ELSE \* cache.remove(q) raises KeyError
                         /\ pc' = "raised"
                         /\ UNCHANGED <<cache, labels>>
        ELSE IF cache = {}
        THEN \* max() of an empty set raises ValueError
             /\ pc' = "raised"
             /\ UNCHANGED <<cache, labels>>
        ELSE \E q \in select_eviction(cache, req.time_step, future_reqs) :
                /\ cache' = cache \ {q}
                /\ pc' = "maintain"
                /\ UNCHANGED labels

\* One iteration of the eviction loop with the no-op domination strategy.
RunEvict ==
    /\ pc = "maintain"
    /\ domination_strategy = "NoOp"
    /\ OverCapacity(cache, CapacityAt(requests[i + 1].time_step))
    /\ \E dom_result \in NoOpFindDomination(cache, Suffix(requests, i + 1), labels) :
            Evict(dom_result)
    /\ UNCHANGED <<inputs, offline, i, total_cost, history, loaded>>

\* One iteration of the eviction loop with an arbitrary domination strategy.
RunEvictAny ==
    /\ pc = "maintain"
    /\ domination_strategy = "Any"
    /\ OverCapacity(cache, CapacityAt(requests[i + 1].time_step))
    /\ \E dom_result \in AnyFindDomination(cache, Suffix(requests, i + 1), labels) :
            Evict(dom_result)
    /\ UNCHANGED <<inputs, offline, i, total_cost, history, loaded>>

\* The loop has ended: record the state, go to the next request or return.
RunRecord ==
    /\ pc = "maintain"
    /\ ~OverCapacity(cache, CapacityAt(requests[i + 1].time_step))
    /\ LET req == requests[i + 1]
       IN  history' = Append(history,
                CacheState(req.time_step, CapacityAt(req.time_step), cache))
    /\ i' = i + 1
    /\ pc' = IF i + 1 = Len(requests) THEN "returned" ELSE "load"
    /\ UNCHANGED <<inputs, offline, cache, total_cost, labels, loaded>>

\* run invoked again on the engine, with the same requests: the labels are
\* set to 0; cache, total_cost and history are as the last invocation left them.
RunAgain ==
    /\ pc = "returned"
    /\ Len(history) < MaxRuns * Len(requests)
    /\ labels' = [x \in DOMAIN labels \cup {r.index : r \in Range(requests)} |->
                    IF x \in {r.index : r \in Range(requests)} THEN 0 ELSE labels[x]]
    /\ i' = 0
    /\ pc' = "load"
    /\ UNCHANGED <<inputs, offline, cache, total_cost, history, loaded>>

-----------------------------------------------------------------------------
(* offline_solver.py: the layered graph.                                    *)

\* self.LARGE
LARGE == 1000000

\* Nodes: "source", "sink", (layer, "slot_in"), (layer, "page_in", idx), ...
Node(lyr, ntype, idx) == [layer |-> lyr, ntype |-> ntype, idx |-> idx]
Source == Node(-1, "source", -1)
Sink == Node(-1, "sink", -1)
PageIn(t, x) == Node(t, "page_in", x)
PageOut(t, x) == Node(t, "page_out", x)
SlotIn(t) == Node(t, "slot_in", -1)
SlotOut(t) == Node(t, "slot_out", -1)

Attr(capacity, weight) == [capacity |-> capacity, weight |-> weight]

\* range(n), n = len(self.pages)
PageIdx == 0..(Len(pages) - 1)

\* max_k = max(self.capacities.values()) if self.capacities else 1
max_k ==
    IF DOMAIN capacities = {} THEN 1
    ELSE CHOOSE k \in Range(capacities) : \A c \in Range(capacities) : c <= k

\* slot_cap = max(0, max_k - curr_k), curr_k = self.capacities.get(layer, 1);
\* layer 0 takes the capacity of step 1.
SlotCap(t) == Max(0, max_k - Get(capacities, Max(t, 1), DefaultCapacity))

\* The weight of the internal edge of page idx at layer t + 1: the page of
\* self.requests[t] is rewarded.
InternalWeight(t, x) ==
    IF pages[x + 1].id = requests[t + 1].page.id THEN 0 - LARGE ELSE 0

\* The weight of page_out(t, x) -> page_in(t + 1, y).
SwitchWeight(x, y) == IF x # y THEN pages[y + 1].weight ELSE 0

\* _build_layered_graph: the edges, each add_edge a pair (u, v) of its own.
_build_layered_graph ==
    LET T == Len(requests)
        \* 1. Initial State (Layer 0)
        initial ==
            [e \in {<<PageIn(0, x), PageOut(0, x)>> : x \in PageIdx} |-> Attr(1, 0)]
            @@ [e \in {<<Source, PageIn(0, x)>> : x \in PageIdx} |-> Attr(1, 0)]
            @@ (<<SlotIn(0), SlotOut(0)>> :> Attr(SlotCap(0), 0 - LARGE))
            @@ (<<Source, SlotIn(0)>> :> Attr(max_k, 0))
        \* 2. Build Layers (Transitions)
        Transition(t) ==
            [e \in {<<PageIn(t + 1, x), PageOut(t + 1, x)>> : x \in PageIdx} |->
                Attr(1, InternalWeight(t, e[1].idx))]
            @@ (<<SlotIn(t + 1), SlotOut(t + 1)>> :> Attr(SlotCap(t + 1), 0 - LARGE))
            @@ [e \in {<<PageOut(t, x), PageIn(t + 1, y)>> : x \in PageIdx, y \in PageIdx}
                    |-> Attr(1, SwitchWeight(e[1].idx, e[2].idx))]
            @@ [e \in {<<PageOut(t, x), SlotIn(t + 1)>> : x \in PageIdx} |-> Attr(1, 0)]
            @@ [e \in {<<SlotOut(t), PageIn(t + 1, y)>> : y \in PageIdx} |->
                    Attr(1, pages[e[2].idx + 1].weight)]
            @@ (<<SlotOut(t), SlotIn(t + 1)>> :> Attr(max_k, 0))
            @@ (<<SlotIn(t), SlotIn(t + 1)>> :> Attr(max_k, 0))
        \* 3. Connect Last Layer to Sink
        last ==
            [e \in {<<PageOut(T, x), Sink>> : x \in PageIdx} |-> Attr(1, 0)]
            @@ (<<SlotOut(T), Sink>> :> Attr(max_k, 0))
            @@ (<<SlotIn(T), Sink>> :> Attr(max_k, 0))
        Layers[t \in 0..T] ==
            IF t = T THEN last ELSE Transition(t) @@ Layers[t + 1]
    IN  initial @@ Layers[0]

\* The demands with the one of the sink left out.
DemandOfSourceOnly(node) == IF node = Source THEN 0 - max_k ELSE 0

\* G.add_node("source", demand=-max_k); G.add_node("sink", demand=max_k)
Demand(node) ==
    IF node = Source THEN 0 - max_k ELSE IF node = Sink THEN max_k ELSE 0

-----------------------------------------------------------------------------
(* nx.min_cost_flow(G): a flow that meets the demands within the capacities *)
(* at the least total cost.  Every edge of G leads from a layer to the next *)
(* or from the in node to the out node of a layer, so a flow is the units   *)
(* the source sends, passing layer after layer.  The flow through layer t   *)
(* is [x, y, z]: x the pages whose internal edge carries a unit, y the      *)
(* flow of the slot edge, z the flow that leaves slot_in(t) for the next    *)
(* layer (or the sink).                                                     *)

Capacity(u, v) == IF <<u, v>> \in DOMAIN G THEN G[<<u, v>>].capacity ELSE 0
Weight(u, v) == G[<<u, v>>].weight

Through(x, y, z) == [x |-> x, y |-> y, z |-> z]

RECURSIVE SumOn(_, _)
\* The sum of f[e] over the elements e of S.
SumOn(f, S) ==
    IF S = {} THEN 0
    ELSE LET e == CHOOSE e \in S : TRUE IN f[e] + SumOn(f, S \ {e})

\* sum(f[e] for e in DOMAIN f)
Sum(f) == SumOn(f, DOMAIN f)

\* Chain.cost: sum(r.page.weight for r in self.requests)
ChainCost(chain) ==
    Sum([n \in 1..Len(chain.requests) |-> chain.requests[n].page.weight])

\* Chain.interval
ChainInterval(chain) ==
    IF chain.requests = <<>> THEN <<0, 0>>
    ELSE <<chain.requests[1].time_step,
           chain.requests[Len(chain.requests)].time_step>>

\* The cost of the flow through the edges inside layer t.
InsideCost(t, s) ==
    Sum([x \in s.x |-> Weight(PageIn(t, x), PageOut(t, x))])
    + s.y * Weight(SlotIn(t), SlotOut(t))

\* The edge (u, v) with its flow, when it carries any.
Carrying(u, v, amount) == IF amount >= 1 THEN {<<u, v, amount>>} ELSE {}

\* The ways the source can send its supply into layer 0.
FromSource ==
    {[flow |-> {<<Source, PageIn(0, x), 1>> : x \in s.x}
               \cup {<<PageIn(0, x), PageOut(0, x), 1>> : x \in s.x}
               \cup Carrying(Source, SlotIn(0), s.y + s.z)
               \cup Carrying(SlotIn(0), SlotOut(0), s.y),
      next |-> s,
      cost |-> Sum([x \in s.x |-> Weight(Source, PageIn(0, x))])
               + (s.y + s.z) * Weight(Source, SlotIn(0))
               + InsideCost(0, s)] :
        s \in {s \in [x : SUBSET PageIdx, y : 0..max_k, z : 0..max_k] :
                /\ Cardinality(s.x) + s.y + s.z = 0 - Demand(Source)
                /\ \A x \in s.x : /\ Capacity(Source, PageIn(0, x)) >= 1
                                  /\ Capacity(PageIn(0, x), PageOut(0, x)) >= 1
                /\ s.y + s.z <= Capacity(Source, SlotIn(0))
                /\ s.y <= Capacity(SlotIn(0), SlotOut(0))}}

\* The ways the flow through layer t can go on into layer t + 1.  to[x] is
\* the page that the unit of page x goes to, or -1 for slot_in; into is the
\* set of pages fed by slot_out; sy the flow of the slot edge of layer t + 1.
Onward(t, s) ==
    LET Targets(to) == {to[x] : x \in s.x} \ {-1}
        ToSlot(to) == {x \in s.x : to[x] = -1}
        Arriving(to, into) ==
            Cardinality(ToSlot(to)) + (s.y - Cardinality(into)) + s.z
        SwitchCost(to) ==
            Sum([x \in s.x |->
                    IF to[x] = -1
                    THEN Weight(PageOut(t, x), SlotIn(t + 1))
                    ELSE Weight(PageOut(t, x), PageIn(t + 1, to[x]))])
        LoadCostOf(into) ==
            Sum([y \in into |-> Weight(SlotOut(t), PageIn(t + 1, y))])
        Choices ==
            {<<to, into>> \in [s.x -> PageIdx \cup {-1}] \X SUBSET PageIdx :
                /\ \A x1, x2 \in s.x : x1 # x2 /\ to[x1] = to[x2] => to[x1] = -1
                /\ \A x \in s.x :
                     IF to[x] = -1
                     THEN Capacity(PageOut(t, x), SlotIn(t + 1)) >= 1
                     ELSE Capacity(PageOut(t, x), PageIn(t + 1, to[x])) >= 1
                /\ into \cap Targets(to) = {}
                /\ Cardinality(into) <= s.y
                /\ \A y \in into : Capacity(SlotOut(t), PageIn(t + 1, y)) >= 1
                /\ \A y \in Targets(to) \cup into :
                     Capacity(PageIn(t + 1, y), PageOut(t + 1, y)) >= 1
                /\ s.y - Cardinality(into) <= Capacity(SlotOut(t), SlotIn(t + 1))
                /\ s.z <= Capacity(SlotIn(t), SlotIn(t + 1))}
    IN  UNION {
          {LET nxt == Through(Targets(c[1]) \cup c[2], sy, Arriving(c[1], c[2]) - sy)
               u == s.y - Cardinality(c[2])
           IN  [flow |-> {<<PageOut(t, x), PageIn(t + 1, c[1][x]), 1>> :
                                x \in s.x \ ToSlot(c[1])}
                         \cup {<<PageOut(t, x), SlotIn(t + 1), 1>> : x \in ToSlot(c[1])}
                         \cup {<<SlotOut(t), PageIn(t + 1, y), 1>> : y \in c[2]}
                         \cup Carrying(SlotOut(t), SlotIn(t + 1), u)
                         \cup Carrying(SlotIn(t), SlotIn(t + 1), s.z)
                         \cup {<<PageIn(t + 1, y), PageOut(t + 1, y), 1>> : y \in nxt.x}
                         \cup Carrying(SlotIn(t + 1), SlotOut(t + 1), sy),
                next |-> nxt,
                cost |-> SwitchCost(c[1]) + LoadCostOf(c[2])
                         + u * Weight(SlotOut(t), SlotIn(t + 1))
                         + s.z * Weight(SlotIn(t), SlotIn(t + 1))
                         + InsideCost(t + 1, nxt)] :
              sy \in 0..Min(Capacity(SlotIn(t + 1), SlotOut(t + 1)),
                            Arriving(c[1], c[2]))} :
          c \in Choices}

\* The way the flow through the last layer reaches the sink, if within the
\* capacities.
ToSink(t, s) ==
    {[flow |-> {<<PageOut(t, x), Sink, 1>> : x \in s.x}
               \cup Carrying(SlotOut(t), Sink, s.y)
               \cup Carrying(SlotIn(t), Sink, s.z),
      cost |-> Sum([x \in s.x |-> Weight(PageOut(t, x), Sink)])
               + s.y * Weight(SlotOut(t), Sink) + s.z * Weight(SlotIn(t), Sink)] :
        ok \in {ok \in {TRUE} :
                    /\ \A x \in s.x : Capacity(PageOut(t, x), Sink) >= 1
                    /\ s.y <= Capacity(SlotOut(t), Sink)
                    /\ s.z <= Capacity(SlotIn(t), Sink)
                    /\ Cardinality(s.x) + s.y + s.z = Demand(Sink)}}

\* The flows through a layer that carry the whole supply.
LayerFlows ==
    {s \in [x : SUBSET PageIdx, y : 0..max_k, z : 0..max_k] :
        Cardinality(s.x) + s.y + s.z = max_k}

\* The least of a set of costs; Infinity when there is none.
Least(costs) ==
    IF costs = {} THEN Infinity
    ELSE CHOOSE c \in costs : \A d \in costs : c <= d

\* cost + rest, where rest may be Infinity.
Plus(cost, rest) == IF rest = Infinity THEN Infinity ELSE cost + rest

\* The least cost of completing a flow from each flow through layer t, given
\* these costs for layer t + 1.
CostToGo(t, after) ==
    [s \in LayerFlows |->
        IF t = Len(requests)
        THEN Least({m.cost : m \in ToSink(t, s)})
        ELSE Least({Plus(m.cost, after[m.next]) : m \in Onward(t, s)})]

\* The cost of a minimum-cost flow; Infinity when no flow is feasible.
MinCost == Least({Plus(m.cost, togo[1][m.next]) : m \in FromSource})

-----------------------------------------------------------------------------
(* offline_solver.py: reconstruction and costs.                             *)

FlowOn(flow, u, v) ==
    IF \E e \in flow : e[1] = u /\ e[2] = v
    THEN (CHOOSE e \in flow : e[1] = u /\ e[2] = v)[3]
    ELSE 0

\* _reconstruct
_reconstruct(flow) ==
    [t \in 1..Len(requests) |->
        CacheState(t, Get(capacities, t, DefaultCapacity),
            {pages[x + 1] : x \in {x \in PageIdx :
                FlowOn(flow, PageIn(t, x), PageOut(t, x)) >= 1}})]

\* _calculate_real_cost
_calculate_real_cost(sts) ==
    IF Len(sts) = 0 THEN 0
    ELSE LET new_pages(n) ==
                 IF n = 1 THEN sts[1].pages ELSE sts[n].pages \ sts[n - 1].pages
             step_cost(n) == Sum([p \in new_pages(n) |-> p.weight])
         IN  Sum([n \in 1..Len(sts) |-> step_cost(n)])

\* _calculate_real_cost_from_flow
_calculate_real_cost_from_flow(graph, flow) ==
    LET weight(e) == graph[<<e[1], e[2]>>].weight
    IN  Sum([e \in {e \in flow : e[3] >= 1 /\ weight(e) > 0} |-> weight(e)])

-----------------------------------------------------------------------------
(* OfflineOptimalSolver.solve                                               *)

\* G = self._build_layered_graph()
SolveBuild ==
    /\ pc = "returned"
    /\ opc = "constructed"
    /\ G' = _build_layered_graph
    /\ layer' = Len(requests) + 1
    /\ opc' = "costs"
    /\ UNCHANGED <<inputs, online, togo, cur, flow_dict, states, real_cost>>

\* The solver works out the least costs, from the last layer to the first.
FlowCosts ==
    /\ opc = "costs"
    /\ togo' = <<CostToGo(layer - 1, IF togo = <<>> THEN <<>> ELSE togo[1])>> \o togo
    /\ layer' = layer - 1
    /\ opc' = IF layer = 1 THEN "min_cost_flow" ELSE "costs"
    /\ UNCHANGED <<inputs, online, G, cur, flow_dict, states, real_cost>>

\* The infeasible outcome with a schedule of empty states in place of [].
UnfeasibleWithSchedule ==
    [real_cost |-> 0, states |-> _reconstruct({})]

\* except nx.NetworkXUnfeasible: return 0.0, []
Unfeasible == [real_cost |-> 0, states |-> <<>>]

\* The solver sends the supply into layer 0, on a way of least cost; without
\* a feasible flow it raises NetworkXUnfeasible and solve returns (0.0, []).
FlowSource ==
    /\ opc = "min_cost_flow"
    /\ layer = 0
    /\ cur = None
    /\ IF MinCost = Infinity
       THEN /\ opc' = "returned"
            /\ states' = Unfeasible.states
            /\ real_cost' = Unfeasible.real_cost
            /\ UNCHANGED <<cur, flow_dict>>
       ELSE /\ \E m \in FromSource :
                /\ Plus(m.cost, togo[1][m.next]) = MinCost
                /\ cur' = m.next
                /\ flow_dict' = m.flow
            /\ UNCHANGED <<opc, states, real_cost>>
    /\ UNCHANGED <<inputs, online, G, togo, layer>>

\* The solver sends the flow on into the next layer, on a way of least cost.
FlowOnward ==
    /\ opc = "min_cost_flow"
    /\ cur # None
    /\ layer < Len(requests)
    /\ \E m \in Onward(layer, cur) :
        /\ Plus(m.cost, togo[layer + 2][m.next]) = togo[layer + 1][cur]
        /\ cur' = m.next
        /\ flow_dict' = flow_dict \cup m.flow
    /\ layer' = layer + 1
    /\ UNCHANGED <<inputs, online, opc, G, togo, states, real_cost>>

\* The flow reaches the sink; solve reconstructs the schedule and its cost.
SolveReturn ==
    /\ opc = "min_cost_flow"
    /\ cur # None
    /\ layer = Len(requests)
    /\ \E m \in ToSink(layer, cur) :
        /\ flow_dict' = flow_dict \cup m.flow
        /\ states' = _reconstruct(flow_dict \cup m.flow)
        /\ real_cost' = _calculate_real_cost(_reconstruct(flow_dict \cup m.flow))
    /\ opc' = "returned"
    /\ UNCHANGED <<inputs, online, G, togo, layer, cur>>

-----------------------------------------------------------------------------
(* Specifications.                                                          *)

vars == <<inputs, online, offline>>

\* OnlineVariableCacheSystem.__init__
InitOnline ==
    /\ pc = "constructed"
    /\ i = 0
    /\ cache = {}
    /\ total_cost = 0
    /\ history = <<>>
    /\ labels = <<>>
    /\ loaded = 0

\* OfflineOptimalSolver.__init__
InitOffline ==
    /\ opc = "constructed"
    /\ G = <<>>
    /\ togo = <<>>
    /\ layer = 0
    /\ cur = None
    /\ flow_dict = {}
    /\ states = <<>>
    /\ real_cost = 0

\* The inputs are given to the solvers directly: no sequence is generated.
InitGiven == N = 0 /\ T_val = 0 /\ A_val = 0

InitInputs ==
    /\ InitGiven
    /\ pages \in PageLists(PageIds)
    /\ requests \in RequestLists(pages)
    /\ capacities \in CapacitySchedules

Init == InitInputs /\ InitOnline /\ InitOffline /\ domination_strategy = "NoOp"

\* The inputs of the experiment that runs both solvers.
InitExperiment ==
    /\ InitGiven
    /\ domination_strategy = "NoOp"
    /\ pages \in PageLists(ExperimentPageIds)
    /\ requests \in RequestLists(pages)
    /\ capacities \in CapacitySchedules
    /\ InitOnline
    /\ InitOffline

\* run_experiment: the online engine, then the offline solver, on one input.
Next ==
    \/ RunStart \/ RunLoad \/ RunEvict \/ RunRecord
    \/ SolveBuild \/ FlowCosts \/ FlowSource \/ FlowOnward \/ SolveReturn

Spec == InitExperiment /\ [][Next]_vars

\* The online engine with the default oracle and the no-op domination strategy.
NextOnline == RunStart \/ RunLoad \/ RunEvict \/ RunRecord

SpecOnline == Init /\ [][NextOnline]_vars

\* The online engine with the default oracle and any domination strategy.
NextDom == RunStart \/ RunLoad \/ RunEvictAny \/ RunRecord

InitDom == InitInputs /\ InitOnline /\ InitOffline /\ domination_strategy = "Any"

SpecDom == InitDom /\ [][NextDom]_vars

\* The online engine constructed with either domination strategy.
InitStrategies ==
    /\ InitInputs
    /\ InitOnline
    /\ InitOffline
    /\ domination_strategy \in {"NoOp", "Any"}

NextStrategies == RunStart \/ RunLoad \/ RunEvict \/ RunEvictAny \/ RunRecord

SpecStrategies == InitStrategies /\ [][NextStrategies]_vars

\* The online engine whose run is invoked more than once.
NextRerun == RunStart \/ RunLoad \/ RunEvict \/ RunRecord \/ RunAgain

SpecRerun == Init /\ [][NextRerun]_vars

\* The worked example: its pages and requests, under the capacity schedules
\* with capacity 1 or 2 at each of its six steps.
ExamplePages == <<Page("A", 1), Page("B", 2), Page("C", 10), Page("D", 3)>>

ExampleRequests ==
    [n \in 1..6 |-> Request(n - 1, ExamplePages[<<1, 2, 3, 1, 4, 2>>[n]], n)]

ExampleCapacities == <<2, 2, 1, 2, 2, 2>>

InitExample ==
    /\ InitGiven
    /\ domination_strategy = "NoOp"
    /\ pages = ExamplePages
    /\ requests = ExampleRequests
    /\ capacities \in [1..6 -> {1, 2}]
    /\ InitOnline
    /\ InitOffline

SpecExample == InitExample /\ [][NextOnline]_vars

\* run_experiment, from the configuration to the engine: the sequence is
\* generated, the schedule gives every step 1..L+1 the same capacity.
Generate ==
    /\ pc = "main"
    /\ LET generated == generate_recursive_sequence(N, T_val, A_val)
       IN  /\ pages' = generated.pages
           /\ requests' = generated.requests
           /\ capacities' = [k \in 1..(Len(generated.requests) + 1) |->
                                ExperimentCapacity]
    /\ pc' = "constructed"
    /\ UNCHANGED <<configuration, offline, i, cache, total_cost, history,
                   labels, loaded>>

InitGenerator ==
    /\ N \in 1..MaxN
    /\ T_val \in BaseWeights
    /\ A_val \in 0..MaxA
    /\ domination_strategy = "NoOp"
    /\ pages = <<>>
    /\ requests = <<>>
    /\ capacities = <<>>
    /\ pc = "main"
    /\ i = 0
    /\ cache = {}
    /\ total_cost = 0
    /\ history = <<>>
    /\ labels = <<>>
    /\ loaded = 0
    /\ InitOffline

\* run_experiment up to the end of the online run.
NextGenerator == Generate \/ RunStart \/ RunLoad \/ RunEvict \/ RunRecord

SpecGenerator == InitGenerator /\ [][NextGenerator]_vars

\* The experiment on inputs nobody validated: a schedule entry may be negative.
UncheckedCapacities == {-1, 0, 1}

UncheckedSchedules ==
    UNION {[1..m -> UncheckedCapacities] : m \in 0..MaxT}

InitUnchecked ==
    /\ InitGiven
    /\ domination_strategy = "NoOp"
    /\ pages \in PageLists(ExperimentPageIds)
    /\ requests \in RequestLists(pages)
    /\ capacities \in UncheckedSchedules
    /\ InitOnline
    /\ InitOffline

SpecUnchecked == InitUnchecked /\ [][Next]_vars

-----------------------------------------------------------------------------
(* Properties of the online engine.                                         *)

\* The schedule entry of a time step, 1 when the schedule has none.
ScheduleEntry(t) == IF t \in DOMAIN capacities THEN capacities[t] ELSE 1

\* C1: every CacheState of the online history holds at most as many pages as
\* the schedule entry of its request's time_step (1 when the entry is
\* missing), and records that capacity.
OnlineCapacityInvariant ==
    \A n \in 1..Len(history) :
        /\ history[n].capacity = ScheduleEntry(requests[n].time_step)
        /\ Cardinality(history[n].pages) <= ScheduleEntry(requests[n].time_step)

\* A run has returned after a request without a schedule entry that found two
\* other pages cached, so that two evictions brought the cache down to 1 page.
OnlineCapacityWitness ==
    /\ pc = "returned"
    /\ \E n \in 2..Len(history) :
        /\ requests[n].time_step \notin DOMAIN capacities
        /\ Cardinality(history[n - 1].pages) = 2
        /\ requests[n].page \notin history[n - 1].pages
        /\ Cardinality(history[n].pages) = 1

\* The requests strictly after the current one that ask for page p.
LaterRequests(p) == {n \in (i + 2)..Len(requests) : requests[n].page = p}

\* The time step of the next occurrence of p, for a p that has one.
NextOccurrence(p) ==
    requests[CHOOSE n \in LaterRequests(p) : \A m \in LaterRequests(p) : n <= m].time_step

\* q is to be evicted rather than p: its next occurrence is later (none counts
\* as +infinity); on equal next occurrences it is heavier; on equal weights
\* its id is the larger one.
EvictedRatherThan(q, p) ==
    IF (LaterRequests(q) = {}) # (LaterRequests(p) = {})
    THEN LaterRequests(q) = {}
    ELSE IF LaterRequests(q) # {} /\ NextOccurrence(q) # NextOccurrence(p)
    THEN NextOccurrence(q) > NextOccurrence(p)
    ELSE IF q.weight # p.weight
    THEN q.weight > p.weight
    ELSE IdRank(q.id) > IdRank(p.id)

Served == 1..(IF pc = "maintain" THEN i + 1 ELSE i)

\* Request n found its page missing: history[n - 1] holds the cache as it was
\* before the request.
Missed(n) == n = 1 \/ requests[n].page \notin history[n - 1].pages

\* C9: total_cost is the sum of the weights of the missed requests: a request
\* adds its page's weight when the page is not in the cache before it and
\* nothing when it is, and evictions add nothing.
CostIsMissedWeights ==
    pc # "constructed" =>
        total_cost = Sum([n \in {m \in Served : Missed(m)} |-> requests[n].page.weight])

\* A run has returned with a hit, and with a page loaded a second time after
\* its eviction.
CostWitness ==
    /\ pc = "returned"
    /\ \E n \in 2..Len(requests) : ~Missed(n)
    /\ \E m, n \in 1..Len(requests) :
        m < n /\ requests[m].page = requests[n].page /\ Missed(n)

\* The pages one call of _evict can remove from the cache for the result
\* dom_result of the domination strategy, over the iteration orders of the set.
Removable(dom_result) ==
    IF dom_result # None
    THEN Rule1Victims(dom_result[1], Suffix(requests, i + 1)) \cap cache
    ELSE select_eviction(cache, requests[i + 1].time_step, Suffix(requests, i + 1))

\* C6: determinism.  Two runs on identical input make the same eviction
\* choices: whatever the domination strategy returns, the page an eviction
\* removes is fixed by the cached pages and the requests, not by the order in
\* which the cache set is iterated.
EvictionChoiceDetermined ==
    pc = "maintain" /\ OverCapacity(cache, CapacityAt(requests[i + 1].time_step)) =>
        \A dom_result \in AnyFindDomination(cache, Suffix(requests, i + 1), labels) :
            Cardinality(Removable(dom_result)) <= 1

\* C10: the eviction loop never fails and ends with
\* |cache| = min(|cache after the load|, k); the run ends after the last
\* request with one CacheState per request; with k = 0 the recorded cache is
\* empty.
EvictionLoopTerminates ==
    /\ pc # "raised"
    /\ pc \in {"load", "returned"} /\ history # <<>> =>
        Cardinality(history[Len(history)].pages)
            = Min(loaded, history[Len(history)].capacity)
    /\ pc = "returned" => Len(history) = Len(requests)
    /\ \A n \in 1..Len(history) : history[n].capacity = 0 => history[n].pages = {}

\* C8: the worked example.  After t=2 the cumulative cost is 3; at t=3 page B
\* is evicted and C is loaded and resident, with cumulative cost 13; at t=4
\* page A is reloaded at cost 1, which gives cumulative cost 14.
WorkedExample ==
    capacities = ExampleCapacities =>
        /\ Len(history) = 2 /\ pc = "load" => total_cost = 3
        /\ Len(history) >= 3 =>
            /\ ExamplePages[2] \notin history[3].pages
            /\ ExamplePages[3] \in history[3].pages
        /\ Len(history) = 3 /\ pc = "load" => total_cost = 13
        /\ Len(history) = 4 /\ pc = "load" => total_cost = 14

-----------------------------------------------------------------------------
(* Properties of the offline solver.                                        *)

\* Both solvers have returned.
Solved == pc = "returned" /\ opc = "returned"

\* C2: the cost solve returns, for any minimum-cost flow of the network, is at
\* most the total cost of the online run on the same input.
OfflineLowerBound == Solved => real_cost <= total_cost

\* The page sets a schedule may hold at step n: at most capacity(n) pages,
\* the requested page among them.
Holdable(n) ==
    {S \in SUBSET Range(pages) :
        /\ requests[n].page \in S
        /\ Cardinality(S) <= ScheduleEntry(requests[n].time_step)}

RECURSIVE CheapestFrom(_, _)
\* The least summed weight of the pages loaded from step n on, by a schedule
\* that holds the set held at step n - 1; Infinity when there is no schedule.
CheapestFrom(n, held) ==
    IF n > Len(requests) THEN 0
    ELSE Least({Plus(Sum([p \in S \ held |-> p.weight]), CheapestFrom(n + 1, S)) :
                   S \in Holdable(n)})

\* The true offline-optimal paging cost, from an empty cache.
OptimalCost == CheapestFrom(1, {})

\* C3: the cost solve returns is the true offline-optimal paging cost.
OfflineOptimality ==
    Solved /\ OptimalCost # Infinity => real_cost = OptimalCost

\* C4: every CacheState of the schedule solve returns, for any minimum-cost
\* flow, holds at most as many pages as the capacity of its step, capacity 0
\* included.
OfflineCapacityInvariant ==
    Solved => \A n \in 1..Len(states) :
                Cardinality(states[n].pages) <= states[n].capacity

\* C5: for the flow the solver returns, the cost from the differences of the
\* reconstructed states equals the cost from the flow, the sum of the
\* positive weights of the edges that carry flow.
ReconstructionAgreement ==
    Solved => _calculate_real_cost(_reconstruct(flow_dict))
                = _calculate_real_cost_from_flow(G, flow_dict)

\* C11: when the min-cost-flow solver signals that the network is infeasible,
\* solve returns the sentinel, cost 0 with an empty schedule; solve returns an
\* empty schedule for a non-empty request sequence in no other case.
InfeasibleSentinel ==
    opc = "returned" =>
        /\ MinCost = Infinity => states = <<>> /\ real_cost = 0
        /\ states = <<>> /\ requests # <<>> => MinCost = Infinity

\* solve has returned for a network without a feasible flow.
InfeasibleWitness ==
    /\ opc = "returned"
    /\ requests # <<>>
    /\ MinCost = Infinity
    /\ states = <<>>

-----------------------------------------------------------------------------
(* Properties of the generator of request sequences.                        *)

\* The positions of the requests of the page of level lvl.
Occurrences(lvl) == {n \in 1..Len(requests) : requests[n].page = pages[lvl]}

\* C12: for n_pages >= 2 the generator returns n pages with the weights
\* t^1..t^n and a sequence in which, for every level above 1, between two
\* consecutive occurrences of that level's page exactly a requests of the
\* page one level below occur; index is the position, time_step = index + 1.
GeneratorSpacing ==
    pc # "main" /\ N >= 2 =>
        /\ Len(pages) = N
        /\ \A k \in 1..N : pages[k].weight = Power(T_val, k)
        /\ \A n \in 1..Len(requests) :
                requests[n].index = n - 1 /\ requests[n].time_step = n
        /\ \A lvl \in 2..N : \A j, k \in Occurrences(lvl) :
                j < k /\ (j + 1)..(k - 1) \cap Occurrences(lvl) = {} =>
                    Cardinality((j + 1)..(k - 1) \cap Occurrences(lvl - 1)) = A_val

\* C13: for n_pages = 3, t = 2, a = 3 the generated sequence holds exactly
\* 3^(n-1) = 9 requests of the page of weight 2^1.
GeneratorCount ==
    pc # "main" /\ N = 3 /\ T_val = 2 /\ A_val = 3 =>
        Cardinality({n \in 1..Len(requests) : requests[n].page.weight = 2})
            = Power(3, N - 1)

-----------------------------------------------------------------------------
(* Further properties of the two solvers.                                   *)

\* C14: for every request whose capacity in effect is at least 1, the
\* CacheState recorded for it holds the requested page: the eviction loop of
\* a step never evicts the page requested at that step.
OnlineRequestedPageResident ==
    \A n \in 1..Len(history) :
        history[n].capacity >= 1 => requests[n].page \in history[n].pages

\* C15: for every minimum-cost flow, at every step whose capacity in effect
\* is at least 1 the reconstructed CacheState holds the page requested at
\* that step.
OfflineRequestedPageResident ==
    Solved => \A n \in 1..Len(states) :
                states[n].capacity >= 1 => requests[n].page \in states[n].pages

\* C16: when the domination strategy returns (p, chains), the page the engine
\* evicts is a member of the cache, of weight at most p.weight, and among
\* those pages the one the oracle's order (next use, then weight, then page
\* id) puts last.
Rule1EvictionChoice ==
    pc = "maintain" /\ OverCapacity(cache, CapacityAt(requests[i + 1].time_step)) =>
        \A dom_result \in
                AnyFindDomination(cache, Suffix(requests, i + 1), labels) \ {None} :
            \A q \in Rule1Victims(dom_result[1], Suffix(requests, i + 1)) :
                /\ q \in cache
                /\ q.weight <= dom_result[1].weight
                /\ \A c \in cache :
                        c.weight <= dom_result[1].weight =>
                            ~OracleKeyLess(q, c, Suffix(requests, i + 1))

\* The indexes of the requests of the chains of a domination result.
ChainIndexes(dom_result) ==
    UNION {{dom_result[2][c].requests[n].index :
                n \in 1..Len(dom_result[2][c].requests)} :
            c \in DOMAIN dom_result[2]}

\* C17: run starts with the label 0 for every request; afterwards labels
\* change only in a Rule-1 eviction, which sets the labels of the requests of
\* the returned chains to p.weight and leaves the others; loads, hits and
\* oracle evictions leave them, so that with the no-op domination strategy
\* all labels are 0 when run returns.
LabelFrame ==
    [][/\ pc = "constructed" =>
            labels' = [x \in {requests[n].index : n \in 1..Len(requests)} |-> 0]
       /\ pc # "constructed" /\ labels' # labels =>
            /\ pc = "maintain"
            /\ domination_strategy = "Any"
            /\ cache' # cache
            /\ \E d \in AnyFindDomination(cache, Suffix(requests, i + 1), labels)
                            \ {None} :
                    /\ DOMAIN labels' = DOMAIN labels
                    /\ \A x \in DOMAIN labels :
                            labels'[x] = IF x \in ChainIndexes(d)
                                         THEN d[1].weight ELSE labels[x]
       /\ pc' = "returned" /\ domination_strategy = "NoOp" =>
            \A x \in DOMAIN labels' : labels'[x] = 0]_vars

\* A run has returned after a Rule-1 eviction that set the label of one
\* request and left the label of another.
LabelFrameWitness ==
    /\ pc = "returned"
    /\ domination_strategy = "Any"
    /\ \E x, y \in DOMAIN labels : labels[x] > 0 /\ labels[y] = 0

\* C18: every invocation of run starts from an empty cache, total_cost 0 and
\* an empty history, so that a second invocation on the same engine returns
\* what the first returned, a history of one CacheState per request.
PerRunState ==
    /\ pc = "load" /\ i = 0 => cache = {} /\ total_cost = 0 /\ history = <<>>
    /\ pc = "returned" => Len(history) = Len(requests)

\* C19: on a fresh engine the history has one entry per processed request, in
\* the order of the requests; the entry of a request is its time_step, the
\* capacity in effect and the cache as the evictions of its step left it;
\* later requests change no earlier entry.
HistorySnapshots ==
    [][/\ Len(history') = i'
       /\ \A n \in 1..Len(history) : history'[n] = history[n]
       /\ history' # history =>
            /\ pc = "maintain"
            /\ i' = i + 1
            /\ cache' = cache
            /\ Cardinality(cache) <= ScheduleEntry(requests[i + 1].time_step)
            /\ history' = Append(history,
                    [time_step |-> requests[i + 1].time_step,
                     capacity |-> ScheduleEntry(requests[i + 1].time_step),
                     pages |-> cache])]_vars

\* A run has returned with three entries, the first of which holds a page that
\* was evicted later on.
HistorySnapshotsWitness ==
    /\ pc = "returned"
    /\ Len(history) = 3
    /\ history[1].pages # {}
    /\ history[1].pages \cap history[3].pages = {}
    /\ history[3].pages = cache

\* The units of the flow that reach the sink.
IntoSink == {e \in flow_dict : e[2] = Sink}

\* C20: for non-negative capacities, entries missing or not, the layered
\* network has a feasible flow of value max capacity from the source to the
\* sink, so solve never returns the infeasible sentinel.
NetworkFeasible ==
    /\ opc \in {"min_cost_flow", "returned"} => MinCost # Infinity
    /\ opc = "returned" =>
        /\ Len(states) = Len(requests)
        /\ Sum([e \in IntoSink |-> e[3]]) = max_k

\* solve has returned a schedule for a schedule of capacities with an entry
\* of 0, an entry of the largest capacity and steps without an entry.
NetworkFeasibleWitness ==
    /\ Solved
    /\ \E t \in DOMAIN capacities : capacities[t] = 0
    /\ max_k = MaxCap
    /\ Len(capacities) < Len(requests)
    /\ Len(states) = Len(requests)

-----------------------------------------------------------------------------
(* Properties of the capacity lookup, the wiring and the chains.            *)

\* C21: both solvers take the capacity of the i-th request from the schedule
\* entry at the request's time_step, so the i-th CacheState of the online
\* history and the i-th of the offline schedule carry the same time_step and
\* the same capacity, also when time_step differs from index + 1.
CapacityLookupByTimeStep ==
    Solved =>
        /\ Len(states) = Len(history)
        /\ \A n \in 1..Len(states) :
            /\ states[n].time_step = history[n].time_step
            /\ states[n].capacity = history[n].capacity

\* G has the edge (u, v) with the capacity max_k.
WiredAtMaxCapacity(u, v) ==
    <<u, v>> \in DOMAIN G /\ G[<<u, v>>].capacity = max_k

\* C22: in the built network the source has an edge to every page_in node of
\* layer 0, to slot_in of layer 0 and to the sink, each of capacity max
\* capacity; the sink has an edge from every page_out node and from slot_out
\* and slot_in of the last layer; supply and demand are the max capacity.
SourceAndSinkWiring ==
    opc # "constructed" =>
        /\ \A x \in PageIdx : WiredAtMaxCapacity(Source, PageIn(0, x))
        /\ WiredAtMaxCapacity(Source, SlotIn(0))
        /\ WiredAtMaxCapacity(Source, Sink)
        /\ \A x \in PageIdx : <<PageOut(Len(requests), x), Sink>> \in DOMAIN G
        /\ <<SlotOut(Len(requests)), Sink>> \in DOMAIN G
        /\ <<SlotIn(Len(requests)), Sink>> \in DOMAIN G
        /\ Demand(Source) = 0 - max_k
        /\ Demand(Sink) = max_k

\* The pages requested in a chain.
ChainPages(chain) == {chain.requests[n].page : n \in 1..Len(chain.requests)}

\* C23: the cost of a chain is the sum of the weights of the distinct pages
\* requested in it, a page requested several times counted once; its
\* interval is (first time_step, last time_step) of its requests.
ChainCostOfDistinctPages ==
    pc = "maintain" =>
        \A d \in AnyFindDomination(cache, Suffix(requests, i + 1), labels) \ {None} :
            \A c \in DOMAIN d[2] :
                /\ ChainCost(d[2][c]) = Sum([p \in ChainPages(d[2][c]) |-> p.weight])
                /\ ChainInterval(d[2][c])
                     = <<d[2][c].requests[1].time_step,
                         d[2][c].requests[Len(d[2][c].requests)].time_step>>

====
